---- MODULE Spec2Model ----
(***************************************************************************)
(* The news pipeline of src/src/LatestNews.tsx: the cache store            *)
(* (loadCache / saveCache), the feed fetcher and parser                     *)
(* (fetchGoogleNewsRSS), the relevance filter (isRelevant) and the          *)
(* orchestrator (load) with its React state (items, loading, error).        *)
(*                                                                         *)
(* Text is modelled by TLA+ strings, a JavaScript value `T | null` by a     *)
(* sequence of length 0 (null) or 1 (the value), and a Date by its UTC      *)
(* calendar fields.                                                         *)
(***************************************************************************)
EXTENDS Integers, Sequences, FiniteSets, TLC

VARIABLES
    items,      \* useState items: the in-memory NewsItem list
    loading,    \* useState loading
    error,      \* useState error: NoError (null) or the message
    slot,       \* localStorage[CACHE_KEY]: Null, or one JSON text
    entry,      \* history: the { ts, items } the slot's text was written from, or Null
    now,        \* Date.now(), in ms since the start of the model's clock
    pending,    \* the load invocations suspended at await fetchGoogleNewsRSS(), in invocation order
    nLoads,     \* how many load invocations there have been
    last,       \* history: the load invocation that finished most recently
    prev,       \* history: the one that finished before it (id, outcome, body)
    from,       \* useState from: the start of the date range, YYYY-MM-DD
    to          \* useState to: the end of the date range, YYYY-MM-DD

vars == <<items, loading, error, slot, entry, now, pending, nLoads, last, prev, from, to>>

----------------------------------------------------------------------------
(* Bounds of the model *)

MaxLoads == 2       \* load invocations in one behaviour
MaxTicks == 1       \* clock advances in one behaviour
LongFeedLen == 103  \* items of the long feed document

----------------------------------------------------------------------------
(* Program constants *)

CACHE_TTL_MS == 60 * 60 * 1000
DEFAULT_FROM == "2021-01-01"
SnippetLen == 180
SliceCap == 100
ErrorMessage == "Unable to load news - please try again later"  \* the dash is an en dash in the source
NoError == "<null>"
POWER_TERMS ==
    << "power", "electricity", "grid", "demand", "supply", "peak", "renewable",
       "solar", "wind", "coal", "plf", "transmission", "discom", "energy" >>

Null == << >>
Some(v) == << v >>
Min(a, b) == IF a <= b THEN a ELSE b

\* Op applied to the value of v, which is computed once
Let(v, Op(_)) == CHOOSE r \in { Op(x) : x \in {v} } : TRUE

----------------------------------------------------------------------------
(* Strings *)

LowerOf ==
    "A" :> "a" @@ "B" :> "b" @@ "C" :> "c" @@ "D" :> "d" @@ "E" :> "e" @@
    "F" :> "f" @@ "G" :> "g" @@ "H" :> "h" @@ "I" :> "i" @@ "J" :> "j" @@
    "K" :> "k" @@ "L" :> "l" @@ "M" :> "m" @@ "N" :> "n" @@ "O" :> "o" @@
    "P" :> "p" @@ "Q" :> "q" @@ "R" :> "r" @@ "S" :> "s" @@ "T" :> "t" @@
    "U" :> "u" @@ "V" :> "v" @@ "W" :> "w" @@ "X" :> "x" @@ "Y" :> "y" @@
    "Z" :> "z"

CharAt(s, i) == SubSeq(s, i, i)

LowerChar(c) == IF c \in DOMAIN LowerOf THEN LowerOf[c] ELSE c

RECURSIVE LowerFrom(_, _)
LowerFrom(s, i) ==
    IF i > Len(s) THEN "" ELSE LowerChar(CharAt(s, i)) \o LowerFrom(s, i + 1)

\* String.prototype.toLowerCase
ToLowerCase(s) == LowerFrom(s, 1)

\* String.prototype.includes
Includes(hay, needle) ==
    \E i \in 1..(Len(hay) - Len(needle) + 1) :
        SubSeq(hay, i, i + Len(needle) - 1) = needle

\* the first position >= i of s holding the character c, or 0
RECURSIVE IndexFrom(_, _, _)
IndexFrom(s, c, i) ==
    IF i > Len(s) THEN 0
    ELSE IF CharAt(s, i) = c THEN i
    ELSE IndexFrom(s, c, i + 1)

\* text.replace(/<[^>]+>/g, ""): a "<", one or more characters other than
\* ">", and the next ">" are removed; scanning resumes after the match.
RECURSIVE StripFrom(_, _)
StripFrom(s, i) ==
    IF i > Len(s) THEN ""
    ELSE IF CharAt(s, i) # "<" THEN CharAt(s, i) \o StripFrom(s, i + 1)
    ELSE Let(IndexFrom(s, ">", i + 1),
             LAMBDA j : IF j >= i + 2 THEN StripFrom(s, j + 1)
                        ELSE "<" \o StripFrom(s, i + 1))

StripTags(s) == StripFrom(s, 1)

\* clamp(text, n = 180); "~" stands for the one-character ellipsis
clamp(text, n) ==
    IF Len(text) <= n THEN text ELSE SubSeq(text, 1, n) \o "~"

----------------------------------------------------------------------------
(* Dates.  A Date is NaN (an invalid date) or its UTC calendar fields.      *)

NaN == [nan |-> TRUE]
Date(y, mo, d, h, mi, s, ms) ==
    [nan |-> FALSE, y |-> y, mo |-> mo, d |-> d, h |-> h, mi |-> mi, s |-> s, ms |-> ms]

DigitOf ==
    "0" :> 0 @@ "1" :> 1 @@ "2" :> 2 @@ "3" :> 3 @@ "4" :> 4 @@
    "5" :> 5 @@ "6" :> 6 @@ "7" :> 7 @@ "8" :> 8 @@ "9" :> 9

IsDigits(s) == \A i \in 1..Len(s) : CharAt(s, i) \in DOMAIN DigitOf

RECURSIVE NumFrom(_, _, _)
NumFrom(s, i, acc) ==
    IF i > Len(s) THEN acc ELSE NumFrom(s, i + 1, 10 * acc + DigitOf[CharAt(s, i)])

\* the number a string of digits writes
Num(s) == NumFrom(s, 1, 0)

DaysInMonth(y, mo) ==
    IF mo \in {4, 6, 9, 11} THEN 30
    ELSE IF mo # 2 THEN 31
    ELSE IF y % 4 = 0 /\ (y % 100 # 0 \/ y % 400 = 0) THEN 29 ELSE 28

\* new Date(text) on the date-time format of ECMAScript, in UTC:
\* YYYY-MM-DDTHH:mm:ssZ or YYYY-MM-DDTHH:mm:ss.sssZ; an invalid date otherwise
ParseISO(text) ==
    IF ~(/\ Len(text) \in {20, 24}
         /\ CharAt(text, 5) = "-" /\ CharAt(text, 8) = "-" /\ CharAt(text, 11) = "T"
         /\ CharAt(text, 14) = ":" /\ CharAt(text, 17) = ":"
         /\ CharAt(text, Len(text)) = "Z"
         /\ (Len(text) = 24 => CharAt(text, 20) = ".")
         /\ IsDigits(SubSeq(text, 1, 4)) /\ IsDigits(SubSeq(text, 6, 7))
         /\ IsDigits(SubSeq(text, 9, 10)) /\ IsDigits(SubSeq(text, 12, 13))
         /\ IsDigits(SubSeq(text, 15, 16)) /\ IsDigits(SubSeq(text, 18, 19))
         /\ (Len(text) = 24 => IsDigits(SubSeq(text, 21, 23))))
    THEN NaN
    ELSE Let(Date(Num(SubSeq(text, 1, 4)), Num(SubSeq(text, 6, 7)),
                  Num(SubSeq(text, 9, 10)), Num(SubSeq(text, 12, 13)),
                  Num(SubSeq(text, 15, 16)), Num(SubSeq(text, 18, 19)),
                  IF Len(text) = 24 THEN Num(SubSeq(text, 21, 23)) ELSE 0),
             LAMBDA t : IF /\ t.mo \in 1..12 /\ t.d \in 1..DaysInMonth(t.y, t.mo)
                            /\ t.h \in 0..23 /\ t.mi \in 0..59 /\ t.s \in 0..59
                         THEN t ELSE NaN)

\* new Date(pubDate): the RFC 822 publish dates the feeds of the model carry,
\* and the ECMAScript date-time format; any other text is an invalid date
DateParse(text) ==
    CASE text = "Mon, 04 Jan 2021 00:00:00 GMT" -> Date(2021, 1, 4, 0, 0, 0, 0)
      [] text = "Tue, 05 Jan 2021 23:59:59 GMT" -> Date(2021, 1, 5, 23, 59, 59, 0)
      [] text = "Sun, 01 Nov 2026 10:30:00 GMT" -> Date(2026, 11, 1, 10, 30, 0, 0)
      [] OTHER -> ParseISO(text)

\* days from 1970-01-01 to the civil date y-mo-d
DaysFromCivil(y, mo, d) ==
    LET yy == IF mo <= 2 THEN y - 1 ELSE y
        era == yy \div 400
        yoe == yy - era * 400
        doy == (153 * (IF mo > 2 THEN mo - 3 ELSE mo + 9) + 2) \div 5 + d - 1
        doe == yoe * 365 + yoe \div 4 - yoe \div 100 + doy
    IN  era * 146097 + doe - 719468

\* Date.prototype.getTime: NaN, or the instant as [day, ms]: whole days since
\* the epoch and milliseconds into the day (day * 86400000 + ms is the time
\* value)
getTime(t) ==
    IF t.nan THEN NaN
    ELSE [nan |-> FALSE, day |-> DaysFromCivil(t.y, t.mo, t.d),
          ms |-> ((t.h * 60 + t.mi) * 60 + t.s) * 1000 + t.ms]

\* a <= b on time values; false when either is NaN
TimeLeq(a, b) ==
    /\ ~a.nan
    /\ ~b.nan
    /\ (a.day < b.day \/ (a.day = b.day /\ a.ms <= b.ms))

Pad2(n) == IF n < 10 THEN "0" \o ToString(n) ELSE ToString(n)
Pad3(n) == IF n < 100 THEN "0" \o Pad2(n) ELSE ToString(n)
Pad4(n) == IF n < 1000 THEN "0" \o Pad3(n) ELSE ToString(n)

\* Date.prototype.toISOString: throws a RangeError on an invalid date
\* ([ok |-> FALSE]); otherwise YYYY-MM-DDTHH:mm:ss.sssZ
ToISOString(t) ==
    IF t.nan THEN [ok |-> FALSE]
    ELSE [ok |-> TRUE,
          val |-> Pad4(t.y) \o "-" \o Pad2(t.mo) \o "-" \o Pad2(t.d) \o "T"
                  \o Pad2(t.h) \o ":" \o Pad2(t.mi) \o ":" \o Pad2(t.s) \o "."
                  \o Pad3(t.ms) \o "Z"]

----------------------------------------------------------------------------
(* Relevance filter *)

\* faulty variant: the text is not lowercased
isRelevantCaseSensitive(item) ==
    \E hay \in { item.title \o " " \o item.snippet \o " " \o item.source } :
        /\ (Includes(hay, "india") \/ Includes(hay, "indian"))
        /\ \E k \in 1..Len(POWER_TERMS) : Includes(hay, POWER_TERMS[k])

isRelevant(item) ==
    \E hay \in { ToLowerCase(item.title \o " " \o item.snippet \o " " \o item.source) } :
        /\ (Includes(hay, "india") \/ Includes(hay, "indian"))
        /\ \E k \in 1..Len(POWER_TERMS) : Includes(hay, POWER_TERMS[k])

----------------------------------------------------------------------------
(* JSON.  A JSON text is [kind, members]: kind "object" is the text         *)
(* JSON.stringify writes for { ts, items }, its members the key/value       *)
(* pairs in the order written; kind "empty" is the empty string and kind    *)
(* "garbage" a text JSON.parse rejects.                                     *)

EmptyText == [kind |-> "empty", members |-> << >>]
GarbageText == [kind |-> "garbage", members |-> << >>]

\* faulty variant: the snippet is not written
ItemMembersNoSnippet(item) ==
    << <<"id", item.id>>, <<"title", item.title>>, <<"url", item.url>>,
       <<"source", item.source>>, <<"publishedAtISO", item.publishedAtISO>> >>

ItemMembers(item) ==
    << <<"id", item.id>>, <<"title", item.title>>, <<"url", item.url>>,
       <<"source", item.source>>, <<"publishedAtISO", item.publishedAtISO>>,
       <<"snippet", item.snippet>> >>

\* JSON.stringify({ ts, items })
JSONStringify(ts, list) ==
    [kind |-> "object",
     members |-> << <<"ts", ts>>,
                    <<"items", [i \in 1..Len(list) |-> ItemMembers(list[i])]>> >>]

\* the object a member list denotes: of two members with one key the later wins
ObjectOf(members) ==
    [k \in { members[i][1] : i \in 1..Len(members) } |->
        members[CHOOSE i \in 1..Len(members) :
                    /\ members[i][1] = k
                    /\ \A j \in (i + 1)..Len(members) : members[j][1] # k][2]]

\* JSON.parse(raw): throws a SyntaxError ([ok |-> FALSE]) unless the text is
\* well formed
JSONParse(text) ==
    IF text.kind # "object" THEN [ok |-> FALSE]
    ELSE Let(ObjectOf(text.members),
             LAMBDA obj :
                 [ok |-> TRUE,
                  val |-> [ts |-> obj.ts,
                           items |-> [i \in 1..Len(obj.items) |-> ObjectOf(obj.items[i])]]])

----------------------------------------------------------------------------
(* Cache store *)

\* faulty variant: an entry exactly CACHE_TTL_MS old is already stale
loadCacheStaleAtTtl(raw, t) ==
    IF raw = Null \/ raw[1].kind = "empty" THEN Null
    ELSE Let(JSONParse(raw[1]),
             LAMBDA parsed :
                 IF ~parsed.ok THEN Null
                 ELSE IF t - parsed.val.ts >= CACHE_TTL_MS THEN Null
                 ELSE Some(parsed.val.items))

\* loadCache(), reading the slot at time t: Null, or Some(list)
loadCache(raw, t) ==
    IF raw = Null \/ raw[1].kind = "empty" THEN Null
    ELSE Let(JSONParse(raw[1]),
             LAMBDA parsed :
                 IF ~parsed.ok THEN Null
                 ELSE IF t - parsed.val.ts > CACHE_TTL_MS THEN Null
                 ELSE Some(parsed.val.items))

\* saveCache(list) at time t, when localStorage.setItem does not throw: the
\* slot's new content
saveCache(list, t) == Some(JSONStringify(t, list))

----------------------------------------------------------------------------
(* Feed fetcher and parser.  A feed document is the sequence of its <item>  *)
(* elements, each [title, link, pubDate, source, description]; "" is an      *)
(* element that is absent or has no text.                                   *)

\* faulty variant: the id is the timestamp alone
NewsItemIdWithoutIndex(item, i, publishedAtISO) ==
    IF item.title = "" \/ item.link = "" \/ publishedAtISO = "" THEN Null
    ELSE Some([id |-> publishedAtISO,
               title |-> item.title,
               url |-> item.link,
               source |-> IF item.source = "" THEN "Google News" ELSE item.source,
               publishedAtISO |-> publishedAtISO,
               snippet |-> clamp(StripTags(item.description), SnippetLen)])

\* the NewsItem the callback of items.map returns, or null
NewsItem(item, i, publishedAtISO) ==
    IF item.title = "" \/ item.link = "" \/ publishedAtISO = "" THEN Null
    ELSE Some([id |-> publishedAtISO \o "_" \o ToString(i),
               title |-> item.title,
               url |-> item.link,
               source |-> IF item.source = "" THEN "Google News" ELSE item.source,
               publishedAtISO |-> publishedAtISO,
               snippet |-> clamp(StripTags(item.description), SnippetLen)])

\* the callback of items.map at index i (from 0): throws ([ok |-> FALSE]), or
\* returns null or the NewsItem
MapItem(item, i) ==
    Let(IF item.pubDate # "" THEN ToISOString(DateParse(item.pubDate))
        ELSE [ok |-> TRUE, val |-> ""],
        LAMBDA iso : IF ~iso.ok THEN [ok |-> FALSE]
                     ELSE [ok |-> TRUE, val |-> NewsItem(item, i, iso.val)])

\* items.map(...).filter(Boolean) on the results of the callback
FilterBoolean(mapped) ==
    IF \E i \in 1..Len(mapped) : ~mapped[i].ok THEN [ok |-> FALSE]
    ELSE Let(SelectSeq(mapped, LAMBDA r : r.val # Null),
             LAMBDA kept : [ok |-> TRUE, val |-> [i \in 1..Len(kept) |-> kept[i].val[1]]])

\* fetchGoogleNewsRSS() from the parsed document on; [ok |-> FALSE] when the
\* promise rejects
ParseFeed(xml) ==
    Let([i \in 1..Len(xml) |-> MapItem(xml[i], i - 1)], FilterBoolean)

\* Array.prototype.slice(0, n)
Slice(list, n) == SubSeq(list, 1, Min(n, Len(list)))

\* faulty variant: raw.slice(0, 100).filter(isRelevant)
RelevantSliceFirst(raw) == Let(Slice(raw, SliceCap), LAMBDA cut : SelectSeq(cut, isRelevant))

\* raw.filter(isRelevant).slice(0, 100)
Relevant(raw) == Let(SelectSeq(raw, isRelevant), LAMBDA rel : Slice(rel, SliceCap))

----------------------------------------------------------------------------
(* The derived view: filtered = useMemo(..., [items, from, to])             *)

\* the UTF-16 code units of the characters publishedAtISO is written with
CodeOf ==
    "-" :> 45 @@ "." :> 46 @@ "0" :> 48 @@ "1" :> 49 @@ "2" :> 50 @@ "3" :> 51 @@
    "4" :> 52 @@ "5" :> 53 @@ "6" :> 54 @@ "7" :> 55 @@ "8" :> 56 @@ "9" :> 57 @@
    ":" :> 58 @@ "T" :> 84 @@ "Z" :> 90

RECURSIVE LessFrom(_, _, _)
LessFrom(a, b, i) ==
    IF i > Len(b) THEN FALSE
    ELSE IF i > Len(a) THEN TRUE
    ELSE IF CharAt(a, i) = CharAt(b, i) THEN LessFrom(a, b, i + 1)
    ELSE CodeOf[CharAt(a, i)] < CodeOf[CharAt(b, i)]

\* a < b on strings: by code units, a proper prefix first
StringLess(a, b) == a # b /\ LessFrom(a, b, 1)

\* the comparator of the sort: (a, b) => (a.publishedAtISO < b.publishedAtISO ? 1 : -1)
Comparator(a, b) == IF StringLess(a.publishedAtISO, b.publishedAtISO) THEN 1 ELSE -1

InsertAt(list, k, x) == SubSeq(list, 1, k - 1) \o << x >> \o SubSeq(list, k, Len(list))

\* binary insertion: the position, in left..right, at which the pivot goes
\* into the sorted prefix (positions from 1; the pivot goes before position
\* left when the search ends)
RECURSIVE BinarySearch(_, _, _, _)
BinarySearch(sorted, pivot, left, right) ==
    IF left >= right THEN left
    ELSE Let((left + right) \div 2,
             LAMBDA mid : IF Comparator(pivot, sorted[mid]) < 0
                          THEN BinarySearch(sorted, pivot, left, mid)
                          ELSE BinarySearch(sorted, pivot, mid + 1, right))

\* linear insertion: the item moves left past every element the comparator
\* puts after it
RECURSIVE LinearSearch(_, _, _)
LinearSearch(sorted, item, j) ==
    IF j < 1 \/ Comparator(sorted[j], item) <= 0 THEN j + 1
    ELSE LinearSearch(sorted, item, j - 1)

\* Array.prototype.sort with the comparator above.  The comparator never
\* returns 0, so it is not a consistent comparator and the order is
\* implementation-defined (ECMAScript, Array.prototype.sort): the model has
\* the order of an engine that sorts by binary insertion and of one that
\* sorts by linear insertion / merging
Engines == { "binary", "linear" }

\* the elements lo..hi of list inserted, one after the other, into the
\* sorted prefix
RECURSIVE InsertRange(_, _, _, _, _)
InsertRange(sorted, list, lo, hi, engine) ==
    IF lo > hi THEN sorted
    ELSE IF lo = hi
    THEN Let(IF engine = "binary"
             THEN BinarySearch(sorted, list[lo], 1, Len(sorted) + 1)
             ELSE LinearSearch(sorted, list[lo], Len(sorted)),
             LAMBDA k : InsertAt(sorted, k, list[lo]))
    ELSE Let(InsertRange(sorted, list, lo, (lo + hi) \div 2, engine),
             LAMBDA half : InsertRange(half, list, (lo + hi) \div 2 + 1, hi, engine))

Sort(list, engine) == InsertRange(<< >>, list, 1, Len(list), engine)

\* faulty variant: the end of the range is exclusive
filteredExclusiveEnd(list, f, t, engine) ==
    Let(<<getTime(ParseISO(f \o "T00:00:00Z")), getTime(ParseISO(t \o "T23:59:59Z"))>>,
        LAMBDA b :
            Sort(SelectSeq(list,
                           LAMBDA n :
                               Let(getTime(ParseISO(n.publishedAtISO)),
                                   LAMBDA at : /\ TimeLeq(b[1], at)
                                               /\ TimeLeq(at, b[2])
                                               /\ at # b[2])),
                 engine))

\* filtered, for the items list and the range from..to, in an engine
filtered(list, f, t, engine) ==
    Let(<<getTime(ParseISO(f \o "T00:00:00Z")), getTime(ParseISO(t \o "T23:59:59Z"))>>,
        LAMBDA b :
            Sort(SelectSeq(list,
                           LAMBDA n :
                               Let(getTime(ParseISO(n.publishedAtISO)),
                                   LAMBDA at : TimeLeq(b[1], at) /\ TimeLeq(at, b[2]))),
                 engine))

----------------------------------------------------------------------------
(* The feed documents the relay answers with *)

FeedItem(t, l, p, s, d) ==
    [title |-> t, link |-> l, pubDate |-> p, source |-> s, description |-> d]

ItemSolar ==
    FeedItem("India solar capacity", "https://news.example/solar",
             "Mon, 04 Jan 2021 00:00:00 GMT", "ET", "<b>Record</b> output")
ItemGrid ==
    FeedItem("INDIAN GRID demand peaks", "https://news.example/grid",
             "Sun, 01 Nov 2026 10:30:00 GMT", "", "")
ItemCricket ==
    FeedItem("Cricket final", "https://news.example/cricket",
             "Tue, 05 Jan 2021 23:59:59 GMT", "Mint", "India wins")
ItemTexas ==
    FeedItem("Solar boom in Texas", "https://news.example/texas",
             "Tue, 05 Jan 2021 23:59:59 GMT", "Mint", "")
ItemPower ==
    FeedItem("India power", "https://news.example/power",
             "Mon, 04 Jan 2021 00:00:00 GMT", "ET", "")
ItemNoLink == [ItemSolar EXCEPT !.link = ""]
ItemNoTitle == [ItemGrid EXCEPT !.title = ""]
ItemNoDate == [ItemSolar EXCEPT !.pubDate = ""]
ItemBadDate == [ItemGrid EXCEPT !.pubDate = "yesterday"]

FeedDrops ==
    << ItemGrid, ItemNoLink, ItemCricket, ItemNoTitle, ItemTexas, ItemNoDate, ItemSolar >>
FeedBadDate == << ItemSolar, ItemBadDate, ItemGrid >>
FeedOffTopic == << ItemCricket, ItemTexas >>
FeedLong == [i \in 1..LongFeedLen |-> IF i % 50 = 0 THEN ItemCricket ELSE ItemPower]

\* the documents, by name
Feeds == { "drops", "baddate", "offtopic", "long" }
Document(name) ==
    CASE name = "drops" -> FeedDrops
      [] name = "baddate" -> FeedBadDate
      [] name = "offtopic" -> FeedOffTopic
      [] name = "long" -> FeedLong

\* what fetchGoogleNewsRSS() makes of each document, and what load adopts
Parsed == [f \in Feeds |-> Let(Document(f), ParseFeed)]
Adopted ==
    [f \in Feeds |-> Let(Parsed[f], LAMBDA raw : IF raw.ok THEN Relevant(raw.val) ELSE << >>)]

----------------------------------------------------------------------------
(* The state machine *)

StartNow == 2 * CACHE_TTL_MS

\* what an earlier session of the program left in the slot
CacheEntry(list, t) == [ts |-> t, items |-> list]
StartEntries ==
    { CacheEntry(<< >>, StartNow) }
    \cup { CacheEntry(list, StartNow - age) :
             list \in { Adopted["drops"] }, age \in { CACHE_TTL_MS, 61 * 60 * 1000 } }

\* todayISODate() on the day of the model: new Date().toISOString().slice(0, 10)
todayISODate == "2026-11-01"

NoLoad == [id |-> 0, force |-> FALSE, seen |-> 0, outcome |-> "none", body |-> ""]
Brief(load) == [id |-> load.id, outcome |-> load.outcome, body |-> load.body]

Init ==
    /\ items = << >>
    /\ loading = FALSE
    /\ error = NoError
    /\ \/ slot \in { Null, Some(EmptyText), Some(GarbageText) } /\ entry = Null
       \/ \E e \in StartEntries : slot = saveCache(e.items, e.ts) /\ entry = Some(e)
    /\ now = StartNow
    /\ pending = << >>
    /\ nLoads = 0
    /\ last = NoLoad
    /\ prev = Brief(NoLoad)
    /\ from = DEFAULT_FROM
    /\ to = todayISODate

\* a call is [id, force, seen]: seen is the id of the load that had finished
\* most recently when this one was invoked
Finished(call, outcome, body) ==
    [id |-> call.id, force |-> call.force, seen |-> call.seen,
     outcome |-> outcome, body |-> body]

Without(seq, i) == SubSeq(seq, 1, i - 1) \o SubSeq(seq, i + 1, Len(seq))

\* faulty variant: if (cached && cached.length)
LoadIgnoresEmptyCache(force) ==
    /\ nLoads < MaxLoads
    /\ nLoads' = nLoads + 1
    /\ \E call \in { [id |-> nLoads + 1, force |-> force, seen |-> last.id] },
          cached \in { IF force THEN Null ELSE loadCache(slot, now) } :
           IF cached # Null /\ Len(cached[1]) > 0
           THEN /\ items' = cached[1]
                /\ loading' = FALSE
                /\ error' = NoError
                /\ pending' = pending
                /\ last' = Finished(call, "hit", "")
                /\ prev' = Brief(last)
           ELSE /\ loading' = TRUE
                /\ error' = NoError
                /\ pending' = Append(pending, call)
                /\ UNCHANGED <<items, last, prev>>
    /\ UNCHANGED <<slot, entry, now, from, to>>

\* faulty variant: a cache hit does not call setItems(cached)
LoadHitKeepsItems(force) ==
    /\ nLoads < MaxLoads
    /\ nLoads' = nLoads + 1
    /\ \E call \in { [id |-> nLoads + 1, force |-> force, seen |-> last.id] },
          cached \in { IF force THEN Null ELSE loadCache(slot, now) } :
           IF cached # Null
           THEN /\ loading' = FALSE
                /\ error' = NoError
                /\ pending' = pending
                /\ last' = Finished(call, "hit", "")
                /\ prev' = Brief(last)
                /\ UNCHANGED items
           ELSE /\ loading' = TRUE
                /\ error' = NoError
                /\ pending' = Append(pending, call)
                /\ UNCHANGED <<items, last, prev>>
    /\ UNCHANGED <<slot, entry, now, from, to>>

\* faulty variant: a cache hit writes the entry back with a new timestamp
LoadRenewsEntry(force) ==
    /\ nLoads < MaxLoads
    /\ nLoads' = nLoads + 1
    /\ \E call \in { [id |-> nLoads + 1, force |-> force, seen |-> last.id] },
          cached \in { IF force THEN Null ELSE loadCache(slot, now) } :
           IF cached # Null
           THEN /\ items' = cached[1]
                /\ loading' = FALSE
                /\ error' = NoError
                /\ pending' = pending
                /\ last' = Finished(call, "hit", "")
                /\ prev' = Brief(last)
                /\ slot' = saveCache(cached[1], now)
                /\ entry' = Some(CacheEntry(cached[1], now))
           ELSE /\ loading' = TRUE
                /\ error' = NoError
                /\ pending' = Append(pending, call)
                /\ UNCHANGED <<items, last, prev, slot, entry>>
    /\ UNCHANGED <<now, from, to>>

\* load(force), up to await fetchGoogleNewsRSS() or to its return
Load(force) ==
    /\ nLoads < MaxLoads
    /\ nLoads' = nLoads + 1
    /\ \E call \in { [id |-> nLoads + 1, force |-> force, seen |-> last.id] },
          cached \in { IF force THEN Null ELSE loadCache(slot, now) } :
           IF cached # Null
           THEN /\ items' = cached[1]
                /\ loading' = FALSE
                /\ error' = NoError
                /\ pending' = pending
                /\ last' = Finished(call, "hit", "")
                /\ prev' = Brief(last)
           ELSE /\ loading' = TRUE
                /\ error' = NoError
                /\ pending' = Append(pending, call)
                /\ UNCHANGED <<items, last, prev>>
    /\ UNCHANGED <<slot, entry, now, from, to>>

\* faulty variant: no finally block
CatchLeavesLoading(i, outcome, body) ==
    /\ error' = ErrorMessage
    /\ loading' = loading
    /\ pending' = Without(pending, i)
    /\ last' = Finished(pending[i], outcome, body)
    /\ prev' = Brief(last)

\* the catch and finally blocks of load
Catch(i, outcome, body) ==
    /\ error' = ErrorMessage
    /\ loading' = FALSE
    /\ pending' = Without(pending, i)
    /\ last' = Finished(pending[i], outcome, body)
    /\ prev' = Brief(last)

\* faulty variant: the catch block clears the list
FetchFailsClearsRecords(i, why) ==
    /\ i \in 1..Len(pending)
    /\ why \in {"transport", "status"}
    /\ Catch(i, "fetch", "")
    /\ items' = << >>
    /\ UNCHANGED <<slot, entry, now, nLoads, from, to>>

\* await fetchGoogleNewsRSS() rejects before a document is read: fetch(proxy)
\* throws (why = "transport") or answers with res.ok false (why = "status")
FetchFails(i, why) ==
    /\ i \in 1..Len(pending)
    /\ why \in {"transport", "status"}
    /\ Catch(i, "fetch", "")
    /\ UNCHANGED <<items, slot, entry, now, nLoads, from, to>>

\* faulty variant: a response is adopted only if no load invoked later has finished
FetchReturnsNewestOnly(i, body, stored) ==
    /\ i \in 1..Len(pending)
    /\ IF ~Parsed[body].ok
       THEN /\ Catch(i, "parse", body)
            /\ UNCHANGED <<items, slot, entry>>
       ELSE \E relevant \in { Adopted[body] } :
                /\ items' = IF pending[i].id > last.id THEN relevant ELSE items
                /\ IF stored
                   THEN /\ slot' = IF pending[i].id > last.id
                                   THEN saveCache(relevant, now) ELSE slot
                        /\ entry' = IF pending[i].id > last.id
                                    THEN Some(CacheEntry(relevant, now)) ELSE entry
                        /\ loading' = FALSE
                        /\ pending' = Without(pending, i)
                        /\ last' = Finished(pending[i], "ok", body)
                        /\ prev' = Brief(last)
                        /\ UNCHANGED error
                   ELSE /\ Catch(i, "save", body)
                        /\ UNCHANGED <<slot, entry>>
    /\ UNCHANGED <<now, nLoads, from, to>>

\* the relay answers with the document named body, fetchGoogleNewsRSS()
\* parses it and load runs to its end; stored tells whether
\* localStorage.setItem returns (or throws)
FetchReturns(i, body, stored) ==
    /\ i \in 1..Len(pending)
    /\ IF ~Parsed[body].ok
       THEN /\ Catch(i, "parse", body)
            /\ UNCHANGED <<items, slot, entry>>
       ELSE \E relevant \in { Adopted[body] } :
                /\ items' = relevant
                /\ IF stored
                   THEN /\ slot' = saveCache(relevant, now)
                        /\ entry' = Some(CacheEntry(relevant, now))
                        /\ loading' = FALSE
                        /\ pending' = Without(pending, i)
                        /\ last' = Finished(pending[i], "ok", body)
                        /\ prev' = Brief(last)
                        /\ UNCHANGED error
                   ELSE /\ Catch(i, "save", body)
                        /\ UNCHANGED <<slot, entry>>
    /\ UNCHANGED <<now, nLoads, from, to>>

\* an hour passes
Tick ==
    /\ now + CACHE_TTL_MS <= StartNow + MaxTicks * CACHE_TTL_MS
    /\ now' = now + CACHE_TTL_MS
    /\ UNCHANGED <<items, loading, error, slot, entry, pending, nLoads, last, prev, from, to>>

Next ==
    \/ \E force \in BOOLEAN : Load(force)
    \/ \E i \in 1..Len(pending), why \in {"transport", "status"} : FetchFails(i, why)
    \/ \E i \in 1..Len(pending), body \in Feeds, stored \in BOOLEAN :
           FetchReturns(i, body, stored)
    \/ Tick

Spec == Init /\ [][Next]_vars

\* the fetch of the load numbered id is answered: with an error, a status or
\* a document
Settles(id) ==
    \E i \in 1..Len(pending) :
        /\ pending[i].id = id
        /\ pending' = Without(pending, i)
        /\ \/ \E why \in {"transport", "status"} : FetchFails(i, why)
           \/ \E body \in Feeds, stored \in BOOLEAN : FetchReturns(i, body, stored)

\* every fetch in flight is eventually answered
FairSpec == Spec /\ \A id \in 1..MaxLoads : WF_vars(Settles(id))

----------------------------------------------------------------------------
(* The date range.  No step of load reads from or to, and only the two      *)
(* inputs write them: Spec leaves the range at its default, ViewSpec adds   *)
(* the inputs' handlers and starts from a cache entry an earlier session    *)
(* left, whose records lie at and around the ends of the ranges.            *)

\* the values the date inputs are set to
FromChoices == { DEFAULT_FROM, "2021-01-04" }
ToChoices == { todayISODate, "2021-01-05" }

\* faulty variant: changing the start date reloads
setFromReloads(v) ==
    /\ v # from
    /\ from' = v
    /\ loading' = TRUE
    /\ UNCHANGED <<items, error, slot, entry, now, pending, nLoads, last, prev, to>>

\* onChange of the start date input: setFrom(e.target.value)
setFrom(v) ==
    /\ v # from
    /\ from' = v
    /\ UNCHANGED <<items, loading, error, slot, entry, now, pending, nLoads, last, prev, to>>

\* onChange of the end date input: setTo(e.target.value)
setTo(v) ==
    /\ v # to
    /\ to' = v
    /\ UNCHANGED <<items, loading, error, slot, entry, now, pending, nLoads, last, prev, from>>

FeedDates ==
    << [ItemPower EXCEPT !.title = "India power A", !.pubDate = "2021-01-03T23:59:59.999Z"],
       [ItemPower EXCEPT !.title = "India power B"],
       [ItemPower EXCEPT !.title = "India power C", !.pubDate = "Tue, 05 Jan 2021 23:59:59 GMT"],
       [ItemPower EXCEPT !.title = "India power D", !.pubDate = "2021-01-05T23:59:59.001Z"],
       [ItemPower EXCEPT !.title = "India power E"],
       [ItemPower EXCEPT !.title = "India power F", !.pubDate = "Sun, 01 Nov 2026 10:30:00 GMT"],
       [ItemPower EXCEPT !.title = "India power G", !.pubDate = "Tue, 05 Jan 2021 23:59:59 GMT"],
       [ItemPower EXCEPT !.title = "India power H"] >>

\* the records an earlier session fetched from FeedDates and saved
ViewRecords == Let(Let(FeedDates, ParseFeed), LAMBDA raw : Relevant(raw.val))

ViewInit ==
    /\ items = << >>
    /\ loading = FALSE
    /\ error = NoError
    /\ slot = saveCache(ViewRecords, StartNow)
    /\ entry = Some(CacheEntry(ViewRecords, StartNow))
    /\ now = StartNow
    /\ pending = << >>
    /\ nLoads = 0
    /\ last = NoLoad
    /\ prev = Brief(NoLoad)
    /\ from = DEFAULT_FROM
    /\ to = todayISODate

ViewNext ==
    \/ Next
    \/ \E v \in FromChoices : setFrom(v)
    \/ \E v \in ToChoices : setTo(v)

ViewSpec == ViewInit /\ [][ViewNext]_vars

\* the lists items holds in ViewSpec, and the view of each in each range and
\* engine
ViewLists == { << >>, ViewRecords } \cup { Adopted[f] : f \in Feeds }
View ==
    [list \in ViewLists, f \in FromChoices, t \in ToChoices, engine \in Engines |->
        filtered(list, f, t, engine)]

----------------------------------------------------------------------------
(* Vocabulary of the properties *)

\* the records of the persisted cache entry, read back from the slot's text
SlotRecords ==
    IF slot # Null /\ slot[1].kind = "object"
    THEN Some(JSONParse(slot[1]).val.items)
    ELSE Null

\* the load that finished last and the one that finished before it ran at
\* the same time: the earlier finisher finished after the later one was invoked
Overlapped == prev.id # 0 /\ last.seen # prev.id

FetchSucceeded(load) == load.outcome \in {"ok", "save"}

\* the positions of the items of a document that have a title, a link and a
\* publish date that parses, in feed order
ValidPositions(xml) ==
    LET V == { i \in 1..Len(xml) :
                 /\ xml[i].title # ""
                 /\ xml[i].link # ""
                 /\ ~DateParse(xml[i].pubDate).nan }
    IN  [j \in 1..Cardinality(V) |->
            CHOOSE i \in V : Cardinality({ x \in V : x <= i }) = j]

\* the list is, element by element, the items of xml at the positions pos
IsItemsAt(list, xml, pos) ==
    /\ Len(list) = Len(pos)
    /\ \A j \in 1..Len(pos) :
           /\ list[j].title = xml[pos[j]].title
           /\ list[j].url = xml[pos[j]].link
           /\ list[j].id = list[j].publishedAtISO \o "_" \o ToString(pos[j] - 1)

ReturnsValidItems == [f \in Feeds |->
    /\ Parsed[f].ok
    /\ IsItemsAt(Parsed[f].val, Document(f), ValidPositions(Document(f)))]

\* the first min(cap, k) of the k records of raw that pass the relevance
\* filter, in the order of raw
FirstRelevant(raw, cap) ==
    LET R == { i \in 1..Len(raw) : isRelevant(raw[i]) }
    IN  [j \in 1..Min(cap, Cardinality(R)) |->
            raw[CHOOSE i \in R : Cardinality({ x \in R : x <= i }) = j]]

FirstHundredRelevant ==
    [f \in Feeds |-> IF Parsed[f].ok THEN FirstRelevant(Parsed[f].val, 100) ELSE << >>]

----------------------------------------------------------------------------
(* Properties *)

C2_SaveFailureSwallowed ==
    [][ (last' # last /\ last'.outcome = "save") =>
            /\ error = NoError => error' = NoError
            /\ loading' = FALSE
            /\ items' = Adopted[last'.body] ]_vars

\* C3: for every feed document fetchRecords returns, without raising an
\* error, exactly the items that have a non-empty title, a non-empty link
\* and a parseable publish date, in feed order.
C3_DropsInvalidItems == last.body # "" => ReturnsValidItems[last.body]

\* C4: load(force) invokes the fetcher if and only if force is true or the
\* cache store's load() returns absent; otherwise it adopts the cached
\* records (even an empty list) and becomes ready (loading false, error
\* null) without a request.
C4_FetchIffForcedOrMiss ==
    [][ nLoads' = nLoads + 1 =>
            LET issued == Len(pending') = Len(pending) + 1
                force == IF issued THEN pending'[Len(pending')].force ELSE last'.force
                cached == loadCache(slot, now)
            IN  /\ issued <=> (force \/ cached = Null)
                /\ issued => loading' = TRUE
                /\ ~issued => /\ pending' = pending
                              /\ items' = cached[1]
                              /\ loading' = FALSE
                              /\ error' = NoError ]_vars

C4_Witness ==
    /\ last.outcome = "hit"
    /\ ~last.force
    /\ items = << >>
    /\ ~(\E i \in 1..Len(pending) : pending[i].id < last.id)
    /\ \E i \in 1..Len(pending) : pending[i].force /\ pending[i].id > last.id
    /\ loadCache(slot, now) = Some(<< >>)

\* C5: the cache store's load() never throws and returns absent exactly
\* when the slot is missing, its content fails to parse, or now - writtenAt
\* exceeds the one-hour freshness window (an entry exactly one hour old is
\* still fresh); in every other case it returns the stored records.
C5_LoadCacheAbsentExactly ==
    loadCache(slot, now) =
        IF \/ slot = Null
           \/ slot[1].kind # "object"
           \/ now - entry[1].ts > 3600000
        THEN Null
        ELSE Some(entry[1].items)

C5_Witness ==
    /\ entry # Null
    /\ now - entry[1].ts = 3600000
    /\ entry[1].items # << >>
    /\ last.outcome = "hit"
    /\ items = entry[1].items

\* C6: round trip: for every record list (the empty list too), a load() that
\* follows save(records) within the freshness window returns exactly
\* records, the same elements in the same order.
C6_SaveLoadRoundTrip ==
    (entry # Null /\ now - entry[1].ts <= CACHE_TTL_MS) =>
        loadCache(saveCache(entry[1].items, entry[1].ts), now) = Some(entry[1].items)

C6_Witness ==
    /\ last.outcome = "hit"
    /\ prev.outcome = "ok"
    /\ items = Adopted[prev.body]
    /\ items # << >>
    /\ now - entry[1].ts = CACHE_TTL_MS

\* C7: after a load whose fetch succeeds, the in-memory records and the
\* records of the persisted cache entry are both exactly the first
\* min(100, k) of the k parsed records that pass the relevance filter, in
\* parse order.
C7_Original ==
    FetchSucceeded(last) =>
        /\ items = FirstHundredRelevant[last.body]
        /\ SlotRecords = Some(FirstHundredRelevant[last.body])

\* C7 (amended): after a load whose fetch succeeds, the in-memory records
\* are exactly the first min(100, k) of the k parsed records that pass the
\* relevance filter, in parse order; the persisted cache entry holds the
\* same records, written at the time of the load, when the cache write does
\* not throw, and when it throws the load leaves the cache slot as it was.
C7_FirstHundredRelevant ==
    /\ [](FetchSucceeded(last) => items = FirstHundredRelevant[last.body])
    /\ [](last.outcome = "ok" =>
               /\ SlotRecords = Some(FirstHundredRelevant[last.body])
               /\ entry = Some(CacheEntry(items, entry[1].ts)))
    /\ [][ (last' # last /\ last'.outcome = "save") => slot' = slot ]_vars

C7_Witness ==
    /\ last.outcome = "ok"
    /\ last.body = "long"
    /\ Len(Parsed["long"].val) > 100
    /\ Len(items) = 100
    /\ SlotRecords = Some(items)

\* C8: provided every issued fetch eventually responds or fails, every load
\* invocation eventually finishes (again and again no load is in flight),
\* loading is false in the state in which a load finishes (cache hit, fetch
\* success or fetch failure), and loading is true only while a load is in
\* flight, so the system never stays in loading.
C8_LoadingCleared ==
    /\ []<>(pending = << >>)
    /\ [](loading => pending # << >>)
    /\ [][ last' # last => loading' = FALSE ]_vars

C8_Witness ==
    /\ nLoads = MaxLoads
    /\ pending = << >>
    /\ ~loading
    /\ last.outcome = "fetch"
    /\ prev.outcome = "ok"

\* C9: when two load invocations overlap and both fetches succeed, after
\* both have finished the in-memory records and the persisted cache entry
\* are those produced by the invocation whose fetch completed last,
\* whichever of the two was invoked first.
C9_Original ==
    (Overlapped /\ FetchSucceeded(last) /\ FetchSucceeded(prev)) =>
        /\ items = Adopted[last.body]
        /\ SlotRecords = Some(Adopted[last.body])

\* C9 (amended): when two load invocations overlap and both fetches
\* succeed, after both have finished the in-memory records are those
\* produced by the invocation whose fetch completed last, whichever of the
\* two was invoked first; the persisted cache entry is the one written by
\* the last of the two whose cache write did not throw.
C9_LastCompletionWinsRecords ==
    (Overlapped /\ FetchSucceeded(last) /\ FetchSucceeded(prev)) =>
        /\ items = Adopted[last.body]
        /\ last.outcome = "ok" => SlotRecords = Some(Adopted[last.body])
        /\ (last.outcome = "save" /\ prev.outcome = "ok") =>
               SlotRecords = Some(Adopted[prev.body])

C9_Witness ==
    /\ Overlapped
    /\ pending = << >>
    /\ last.id < prev.id
    /\ last.outcome = "ok"
    /\ prev.outcome = "ok"
    /\ Adopted[last.body] # Adopted[prev.body]
    /\ items = Adopted[last.body]
    /\ SlotRecords = Some(items)

\* C10: when load invocations overlap, once all of them have finished error
\* is null if the invocation that finished last succeeded and is the fixed
\* message if it failed.
C10_LastCompletionWinsError ==
    (Overlapped /\ pending = << >>) =>
        /\ last.outcome \in {"hit", "ok"} => error = NoError
        /\ last.outcome \in {"fetch", "parse"} => error = ErrorMessage

\* C11: from the orchestrator's perspective at most one fetch operation is
\* in flight at any time, for every sequence of the initial-load, Refresh
\* and Retry triggers.
C11_AtMostOneFetchInFlight == Len(pending) <= 1

\* C12: if a fetch issued by load never completes, loading remains true
\* indefinitely: as long as a fetch is still in flight, loading is true.
C12_LoadingWhileFetchInFlight == pending # << >> => loading

\* C13: a stale cache entry is ignored but not deleted, and the slot is only
\* ever replaced wholesale by a successful fetch: a load that hits the cache
\* and a load whose fetch fails leave the slot unchanged, while every
\* successful fetch overwrites the slot with the new list and
\* writtenAt = now.
C13_Original ==
    [][ /\ slot' # slot => (last' # last /\ FetchSucceeded(last'))
        /\ (last' # last /\ FetchSucceeded(last')) =>
               /\ slot' = saveCache(Adopted[last'.body], now)
               /\ SlotRecords' = Some(Adopted[last'.body]) ]_vars

\* C13 (amended): a stale cache entry is ignored but not deleted, and the
\* slot is only ever replaced wholesale by a successful fetch whose cache
\* write does not throw: reading the cache, a load that hits the cache (a
\* hit does not renew writtenAt), a load that finds the entry stale and
\* issues a fetch, a load whose fetch fails and a load whose cache write
\* throws all leave the slot unchanged, while every successful fetch whose
\* cache write does not throw overwrites the slot with the new list and
\* writtenAt = now, with no merge with the previous entry.
C13_SlotReplacedWholesale ==
    [][ IF last' # last /\ last'.outcome = "ok"
        THEN slot' = saveCache(Adopted[last'.body], now)
        ELSE slot' = slot ]_vars

C13_Witness ==
    /\ last.outcome = "ok"
    /\ prev.outcome = "fetch"
    /\ last.seen = prev.id
    /\ ~last.force
    /\ entry = Some(CacheEntry(Adopted[last.body], now))
    /\ Adopted[last.body] # Adopted["drops"]
    /\ SlotRecords = Some(Adopted[last.body])
    /\ now > StartNow

\* the record's publishedAt instant lies in [f at 00:00:00Z, t at 23:59:59Z]:
\* read off the ISO texts, which order as the instants do
InRange(rec, f, t) ==
    /\ ~StringLess(rec.publishedAtISO, f \o "T00:00:00.000Z")
    /\ ~StringLess(t \o "T23:59:59.000Z", rec.publishedAtISO)

\* the list v holds exactly the records of list that lie in the range, each
\* once
HoldsExactlyInRange(v, list, f, t) ==
    LET R == { i \in 1..Len(list) : InRange(list[i], f, t) }
    IN  /\ Len(v) = Cardinality(R)
        /\ { v[j] : j \in 1..Len(v) } = { list[i] : i \in R }

RetainsInRange ==
    [list \in ViewLists, f \in FromChoices, t \in ToChoices |->
        \A engine \in Engines : HoldsExactlyInRange(View[list, f, t, engine], list, f, t)]

\* C14: the view retains exactly the records whose publishedAt instant t
\* satisfies (from at 00:00:00Z) <= t <= (to at 23:59:59Z), dates in UTC and
\* both bounds inclusive: a record exactly at the range start or end is
\* included, one a millisecond outside either bound is excluded.
C14_RetainsExactlyInRange == items \in ViewLists /\ RetainsInRange[items, from, to]

C14_Witness ==
    /\ items = ViewRecords
    /\ from = "2021-01-04"
    /\ to = "2021-01-05"
    /\ \A engine \in Engines :
           { r.id : r \in { View[items, from, to, engine][j] :
                              j \in 1..Len(View[items, from, to, engine]) } }
             = { "2021-01-04T00:00:00.000Z_1", "2021-01-05T23:59:59.000Z_2",
                 "2021-01-04T00:00:00.000Z_4", "2021-01-05T23:59:59.000Z_6",
                 "2021-01-04T00:00:00.000Z_7" }
    /\ \E i \in 1..Len(items) : items[i].publishedAtISO = "2021-01-03T23:59:59.999Z"
    /\ \E i \in 1..Len(items) : items[i].publishedAtISO = "2021-01-05T23:59:59.001Z"

PositionIn(list, rec) == CHOOSE i \in 1..Len(list) : list[i] = rec

\* v is in descending order of publishedAt
IsDescending(v) ==
    \A j \in 1..Len(v), k \in 1..Len(v) :
        j < k => ~StringLess(v[j].publishedAtISO, v[k].publishedAtISO)

\* records of v with the same publishedAt are in the reverse of their order
\* in list
TiesReversed(v, list) ==
    \A j \in 1..Len(v), k \in 1..Len(v) :
        (j < k /\ v[j].publishedAtISO = v[k].publishedAtISO) =>
            PositionIn(list, v[j]) > PositionIn(list, v[k])

DescendingTiesReversed ==
    [list \in ViewLists, f \in FromChoices, t \in ToChoices |->
        \A engine \in Engines :
            /\ IsDescending(View[list, f, t, engine])
            /\ TiesReversed(View[list, f, t, engine], list)]

\* C15: the view is ordered by publishedAt descending, and two records that
\* share the same publishedAt instant appear in a deterministic order: their
\* relative order in records, reversed.
C15_DescendingTiesReversed ==
    items \in ViewLists /\ DescendingTiesReversed[items, from, to]

\* C16: changing the date range (from or to) changes only the derived
\* view: it issues no fetch and leaves the in-memory records (content and
\* order), the persisted cache entry, loading and error unchanged; the view
\* is a function of (records, from, to) only, so steps that leave the three
\* unchanged leave the view unchanged.
C16_RangeChangesOnlyView ==
    [][ /\ (from' # from \/ to' # to) =>
               /\ items' = items
               /\ slot' = slot
               /\ entry' = entry
               /\ loading' = loading
               /\ error' = error
               /\ pending' = pending
               /\ nLoads' = nLoads
        /\ (items' = items /\ from' = from /\ to' = to) =>
               \A engine \in Engines :
                   View[items', from', to', engine] = View[items, from, to, engine] ]_vars

C16_Witness ==
    /\ from # DEFAULT_FROM
    /\ to # todayISODate
    /\ loading
    /\ pending # << >>
    /\ items = ViewRecords
    /\ SlotRecords = Some(items)
    /\ \A engine \in Engines :
           View[items, from, to, engine] # View[items, DEFAULT_FROM, todayISODate, engine]

\* the text contains the (lowercase) term, whatever the casing of the text
ContainsTerm(text, term) ==
    \E i \in 1..(Len(text) - Len(term) + 1) :
        \A k \in 1..Len(term) : LowerChar(CharAt(text, i + k - 1)) = CharAt(term, k)

GeographyTerms == { "india", "indian" }
TopicTerms ==
    { "power", "electricity", "grid", "demand", "supply", "peak", "renewable",
      "solar", "wind", "coal", "plf", "transmission", "discom", "energy" }

RelevantAsSpecified(rec) ==
    LET text == rec.title \o " " \o rec.snippet \o " " \o rec.source
    IN  /\ \E g \in GeographyTerms : ContainsTerm(text, g)
        /\ \E t \in TopicTerms : ContainsTerm(text, t)

Record(title, snippet, source) == [title |-> title, snippet |-> snippet, source |-> source]

\* records and what isRelevant is to answer for each
RelevanceCases ==
    { <<Record("INDIAN GRID demand peaks", "", "Google News"), TRUE>>,
      <<Record("Wind farms", "", "The Indian Express"), TRUE>>,
      <<Record("", "Coal output in India", ""), TRUE>>,
      <<Record("Peak India", "", ""), TRUE>>,
      <<Record("PLF", "", "INDIA"), TRUE>>,
      <<Record("", "", ""), FALSE>>,
      <<Record("India", "", ""), FALSE>>,
      <<Record("Solar boom in Texas", "", "Mint"), FALSE>>,
      <<Record("Ind", "ia power", ""), FALSE>>,
      <<Record("Cricket final", "India wins", "Mint"), FALSE>> }

RelevanceCasesHold ==
    \A c \in RelevanceCases :
        /\ isRelevant(c[1]) = c[2]
        /\ RelevantAsSpecified(c[1]) = c[2]

FilterAsSpecified ==
    [f \in Feeds |->
        Parsed[f].ok =>
            \A i \in 1..Len(Parsed[f].val) :
                isRelevant(Parsed[f].val[i]) <=> RelevantAsSpecified(Parsed[f].val[i])]

\* C17: for every record R, isRelevant(R) is true if and only if the
\* lowercased concatenation of R's title, snippet and source contains a
\* geography term ('india' or 'indian') and at least one of the fixed topic
\* terms, whatever the casing and order of the terms; a record with an empty
\* title or snippet gets an answer like any other.
C17_RelevantIffGeographyAndTopic ==
    /\ RelevanceCasesHold
    /\ last.body # "" => FilterAsSpecified[last.body]

C17_Witness ==
    /\ last.outcome = "ok"
    /\ last.body = "drops"
    /\ items = Adopted["drops"]
    /\ \E i \in 1..Len(items) : items[i].title = "INDIAN GRID demand peaks" /\ items[i].snippet = ""
    /\ \E i \in 1..Len(Parsed["drops"].val) : ~isRelevant(Parsed["drops"].val[i])

DistinctIds(list) == Cardinality({ list[i].id : i \in 1..Len(list) }) = Len(list)

\* the lists the program holds in memory or has written to the cache
Batches ==
    { << >>, ViewRecords } \cup { Adopted[f] : f \in Feeds } \cup { e.items : e \in StartEntries }
BatchHasDistinctIds == [list \in Batches |-> DistinctIds(list)]

\* C18: in every reachable state the records held in memory, and the
\* records of the cache entry this program wrote, have pairwise distinct
\* ids: each list is one batch of a fetch, and the ids of a batch are
\* distinct.
C18_DistinctIds ==
    /\ items \in Batches /\ BatchHasDistinctIds[items]
    /\ entry # Null => (entry[1].items \in Batches /\ BatchHasDistinctIds[entry[1].items])

C18_Witness ==
    /\ items = Adopted["long"]
    /\ entry = Some(CacheEntry(items, now))
    /\ Len(items) = 100
    /\ items[1].publishedAtISO = items[100].publishedAtISO
    /\ items[1].id # items[100].id

\* C19: whenever a load invocation finishes without setting error (a cache
\* hit, or a successful fetch followed by a successful save), the in-memory
\* records equal the records of the persisted cache entry, and they stay
\* equal until the next load finishes; this holds for every sequence of
\* load(false)/load(true) invocations, overlapping ones too.
C19_RecordsEqualCacheEntry ==
    last.outcome \in {"hit", "ok"} => SlotRecords = Some(items)

C19_Witness ==
    /\ Overlapped
    /\ last.outcome = "ok"
    /\ prev.outcome = "hit"
    /\ last.id < prev.id
    /\ items = Adopted[last.body]
    /\ items # << >>
    /\ SlotRecords = Some(items)

\* the load that finished last ran alone: no other load finished while it
\* ran and none is in flight
RanAlone == last.id # 0 /\ last.seen = prev.id /\ pending = << >>

\* C20: every load invocation clears error when it starts, so for
\* non-overlapping load invocations error is non-null exactly when the most
\* recently finished load failed (a load that succeeds, by a cache hit or by
\* a fetch, leaves error null, after a failed one too), and error is null
\* whenever loading is true.
C20_ErrorTracksLastLoad ==
    /\ [][ nLoads' = nLoads + 1 => error' = NoError ]_vars
    /\ [](loading => error = NoError)
    /\ [](RanAlone => (error # NoError <=> ~(last.outcome = "hit" \/ FetchSucceeded(last))))

----------------------------------------------------------------------------
====
